---- MODULE Spec2Model ----
(***************************************************************************)
(* Order lifecycle, inventory reservation and courier delivery handlers of *)
(* the CRM server (src/src/supabase/functions/server/index.tsx), over the  *)
(* key/value record store.  One variable per key prefix of the store.      *)
(***************************************************************************)
EXTENDS Integers, Sequences, FiniteSets, TLC

\* ---------------------------------------------------------------- bounds
\* largest reading of Date.now() (record ids are clock readings)
MaxClock == 2
\* largest number of audit records written in one behaviour
MaxAudit == 4
\* largest number of line items in one order payload
MaxItems == 1
\* largest number of requests whose store calls interleave
MaxInFlight == 2
\* largest key of the device's queue of actions
MaxKey == 2

\* ---------------------------------------------------------------- domains
Null == "null"
Absent == [absent |-> TRUE]

Times == 1..MaxClock
Products == {"P1", "P2"}
Serials == {"S1"}

Admin == [id |-> "A1", name |-> "Admin", role |-> "admin"]
Courier1 == [id |-> "U1", name |-> "C1", role |-> "courier"]
Courier2 == [id |-> "U2", name |-> "C2", role |-> "courier"]
\* verifyUser's result for a missing or invalid credential
NoUser == [id |-> Null, name |-> Null, role |-> Null]

LifecycleStatuses ==
    {"new", "in_progress", "confirmed", "picking", "shipped", "completed", "cancelled"}

Item(p, s) == [productId |-> p, serial |-> s]
ItemsOfLen(n) == [1..n -> {Item(p, s) : p \in Products, s \in Serials \cup {Null}}]
ItemLists == UNION {ItemsOfLen(n) : n \in 0..MaxItems}

VARIABLES
    clock,       \* last reading of Date.now()
    orders,      \* order:<id>        -> order record
    orderItems,  \* order_item:<id>:i -> item, as the sequence of the order's items
    stockUnits,  \* stock_unit:<id>   -> unit record
    stockMoves,  \* stock_move:<key>  -> movement record (a set of keyed records)
    audit,       \* audit:<ts>:<rnd>  -> audit entry, in write order
    requests,    \* status-transition / stock-arrival requests in flight
    last,        \* the last request answered: operation, inputs, response, store before it
    actionStore, \* the courier device's IndexedDB object store 'actions'
    keyGen,      \* that object store's key generator: the last key it generated
    online,      \* navigator.onLine of the courier device
    toast,       \* the notice the courier UI showed last
    syncEvent,   \* a 'sync-orders' sync event is waiting for the service worker
    app          \* the state of the AppContent component on the device

\* the state of the courier's device
device == <<actionStore, keyGen, online, toast, syncEvent, app>>

vars == <<clock, orders, orderItems, stockUnits, stockMoves, audit, requests, last, device>>

Store == [orders |-> orders, orderItems |-> orderItems, stockUnits |-> stockUnits,
          stockMoves |-> stockMoves, audit |-> audit]

\* ---------------------------------------------------------------- helpers
\* verifyUser: null for a missing/invalid credential, the user otherwise
verifyUser(u) == u # NoUser

\* logAudit: one new record under a unique audit:<timestamp>:<random> key
logAudit(log, entity, entityId, action, userId, snapshot) ==
    Append(log, [entity |-> entity, entityId |-> entityId, action |-> action,
                 userId |-> userId, snapshot |-> snapshot])

\* key of a movement: Date.now() + 1 (rnd = 0) or Date.now() + Math.random()
MoveKey(t, rnd) == [t |-> t, rnd |-> rnd]
\* a fresh value of Math.random(): never equal to one drawn before
FreshRnd(moves) == Cardinality(moves) + 1

\* kv.set on a stock_move key: a record under the same key is replaced
SetMove(moves, m) == {x \in moves : x.key # m.key} \cup {m}

Answer(op, http, user, id, arg, pre, out) ==
    [op |-> op, http |-> http, user |-> user, id |-> id, arg |-> arg, pre |-> pre, out |-> out]

\* the server takes a request while no other request is in flight; the model
\* follows a behaviour until MaxAudit audit records are written
Idle == requests = {} /\ Len(audit) < MaxAudit

\* an early `return c.json({error}, code)`: nothing is written
Reject(op, http, user, id, arg) ==
    /\ last' = Answer(op, http, user, id, arg, Store, Null)
    /\ UNCHANGED <<clock, orders, orderItems, stockUnits, stockMoves, audit, requests, device>>

\* AppContent before its first render: nobody signed in, useState('dashboard'),
\* no product or order selected; `stale`: a render is due, `effect`: the
\* [user] effect is due, `screen`: the component on screen, `rendered`: the
\* page it was rendered for
AppInit ==
    [user |-> NoUser, currentPage |-> "dashboard", selectedProductId |-> 0,
     selectedOrderId |-> 0, isCreatingOrder |-> FALSE,
     stale |-> TRUE, effect |-> TRUE, screen |-> "none", rendered |-> "none"]

\* a device that never queued anything, online, with no notice on screen
DeviceInit ==
    /\ actionStore = {}
    /\ keyGen = 0
    /\ online = TRUE
    /\ toast = "none"
    /\ syncEvent = FALSE
    /\ app = AppInit

Init ==
    /\ clock = 1
    /\ orders = [i \in Times |-> Absent]
    /\ orderItems = [i \in Times |-> <<>>]
    /\ stockUnits = [i \in Times |-> Absent]
    /\ stockMoves = {}
    /\ audit = <<>>
    /\ requests = {}
    /\ last = Answer("none", 0, NoUser, 0, Null, Null, Null)
    /\ DeviceInit

\* ---------------------------------------------------------------- POST /stock-units
SerialExists(units, productId, serial) ==
    \E i \in Times : /\ units[i] # Absent
                     /\ units[i].serial = serial
                     /\ units[i].productId = productId

NewUnit(productId, serial) ==
    [productId |-> productId, serial |-> serial, status |-> "available", orderId |-> 0]

ArrivalMove(moveId, productId, serial) ==
    [key |-> MoveKey(moveId, 0), type |-> "arrival", productId |-> productId, serial |-> serial]

PostStockUnit(user, productId, serial) ==
    /\ Idle
    /\ IF ~verifyUser(user)
       THEN Reject("postStockUnit", 401, user, 0, Item(productId, serial))
       ELSE IF serial # Null /\ SerialExists(stockUnits, productId, serial)
       THEN Reject("postStockUnit", 400, user, 0, Item(productId, serial))
       ELSE /\ \E id \in clock..MaxClock : \E now2 \in id..MaxClock :
                 /\ clock' = now2
                 /\ stockUnits' = [stockUnits EXCEPT ![id] = NewUnit(productId, serial)]
                 /\ stockMoves' = SetMove(stockMoves, ArrivalMove(now2 + 1, productId, serial))
                 /\ audit' = logAudit(audit, "stock_unit", id, "create", user.id,
                                      NewUnit(productId, serial))
                 /\ last' = Answer("postStockUnit", 200, user, id, Item(productId, serial),
                                   Store, Null)
            /\ UNCHANGED <<orders, orderItems, requests, device>>

\* ---------------------------------------------------------------- POST /orders
Undef == "undefined"

\* A create/update payload is a record holding only the keys that were sent.
EmptyPayload == <<>>
\* orderData.<f>, `dflt` standing for undefined
Field(od, f, dflt) == IF f \in DOMAIN od THEN od[f] ELSE dflt

\* `x || dflt` on a payload field
OrElse(x, dflt) == IF x = Undef \/ x = Null THEN dflt ELSE x

\* deliveryDate is a calendar day, as a day number; 0: no date
NewOrder(od) ==
    [status |-> OrElse(Field(od, "status", Undef), "new"),
     courierId |-> OrElse(Field(od, "courierId", Undef), Null),
     deliveryDate |-> Field(od, "deliveryDate", 0),
     deliveryStatus |-> Null,
     deliveredAt |-> 0,
     deliveredLat |-> Null,
     recipientName |-> Null,
     proofPhotoUrl |-> Null]

\* kv.set of order_item:<id>:<i> for i = 0..n-1: items stored before under a
\* larger index stay
WriteItems(old, items) ==
    items \o (IF Len(old) > Len(items) THEN SubSeq(old, Len(items) + 1, Len(old)) ELSE <<>>)

PostOrder(user, od, items) ==
    /\ Idle
    /\ IF ~verifyUser(user)
       THEN Reject("postOrder", 401, user, 0, od)
       ELSE /\ \E id \in clock..MaxClock :
                 /\ clock' = id
                 /\ orders' = [orders EXCEPT ![id] = NewOrder(od)]
                 /\ orderItems' = [orderItems EXCEPT ![id] = WriteItems(@, items)]
                 /\ audit' = logAudit(audit, "order", id, "create", user.id, NewOrder(od))
                 /\ last' = Answer("postOrder", 200, user, id, od, Store, Null)
            /\ UNCHANGED <<stockUnits, stockMoves, requests, device>>

\* ---------------------------------------------------------------- PUT /orders/:id
\* { ...existing, ...orderData }: a key the payload carries replaces the stored one
Merge(existing, od) ==
    [f \in DOMAIN existing |-> IF f \in DOMAIN od THEN od[f] ELSE existing[f]]

PutOrder(user, id, od, items) ==
    /\ Idle
    /\ IF ~verifyUser(user)
       THEN Reject("putOrder", 401, user, id, od)
       ELSE IF orders[id] = Absent
       THEN Reject("putOrder", 404, user, id, od)
       ELSE /\ orders' = [orders EXCEPT ![id] = Merge(orders[id], od)]
            /\ orderItems' = IF items = Undef THEN orderItems
                             ELSE [orderItems EXCEPT ![id] = items]
            /\ audit' = logAudit(audit, "order", id, "update", user.id, Merge(orders[id], od))
            /\ last' = Answer("putOrder", 200, user, id, od, Store, Null)
            /\ UNCHANGED <<clock, stockUnits, stockMoves, requests, device>>

\* ---------------------------------------------------------------- POST /orders/:id/status
\* kv.getByPrefix('stock_unit:') followed by find(u => u.serial === item.serial):
\* the first unit of the scan with the item's serial.  The store fixes no scan
\* order, so any unit with that serial can be the one found.
FindBySerial(units, serial) ==
    {i \in Times : units[i] # Absent /\ units[i].serial = serial}

ReserveMove(moves, item) ==
    [key |-> MoveKey(0, FreshRnd(moves)), type |-> "reserve",
     productId |-> item.productId, serial |-> item.serial]

WriteoffMove(moves, item) ==
    [key |-> MoveKey(0, FreshRnd(moves)), type |-> "writeoff",
     productId |-> item.productId, serial |-> item.serial]

\* body of the reserve loop for one item, the scan having found unit u
ReserveUnit(st, item, u, id) ==
    IF st.units[u].status = "available"
    THEN [units |-> [st.units EXCEPT ![u] = [@ EXCEPT !.status = "reserved", !.orderId = id]],
          moves |-> SetMove(st.moves, ReserveMove(st.moves, item))]
    ELSE st

\* body of the write-off loop for one item, the scan having found unit u
WriteOffUnit(st, item, u) ==
    [units |-> [st.units EXCEPT ![u] = [@ EXCEPT !.status = "sold"]],
     moves |-> SetMove(st.moves, WriteoffMove(st.moves, item))]

\* one iteration of either loop: the set of stores it can leave
StockStep(st, item, id, status) ==
    IF item.serial = Null \/ FindBySerial(st.units, item.serial) = {}
    THEN {st}
    ELSE {IF status = "completed" THEN WriteOffUnit(st, item, u)
          ELSE ReserveUnit(st, item, u, id) : u \in FindBySerial(st.units, item.serial)}

RECURSIVE StockLoop(_, _, _, _, _)
StockLoop(st, items, i, id, status) ==
    IF i > Len(items) THEN {st}
    ELSE UNION {StockLoop(st2, items, i + 1, id, status) :
                  st2 \in StockStep(st, items[i], id, status)}

\* the stock side effects of a transition to `status`
StockEffects(units, moves, items, id, status) ==
    IF status \in {"picking", "shipped", "completed"}
    THEN StockLoop([units |-> units, moves |-> moves], items, 1, id, status)
    ELSE {[units |-> units, moves |-> moves]}

UpdatedOrder(order, status, courierId) ==
    [order EXCEPT !.status = status,
                  !.courierId = IF courierId # Undef THEN courierId ELSE order.courierId]

\* an audit call that records the target status as the one left
StatusAudit_FromTarget(log, order, id, userId, status, courierId) ==
    logAudit(log, "order", id, "status_change", userId, [from |-> status, to |-> status])

StatusAudit(log, order, id, userId, status, courierId) ==
    LET a1 == logAudit(log, "order", id, "status_change", userId,
                       [from |-> order.status, to |-> status])
    IN IF courierId \notin {Undef, Null} /\ courierId # order.courierId
       THEN logAudit(a1, "order", id, "courier_assigned", userId, [courierId |-> courierId])
       ELSE a1

PostStatus(user, id, status, courierId) ==
    /\ Idle
    /\ IF ~verifyUser(user)
       THEN Reject("postStatus", 401, user, id, status)
       ELSE IF orders[id] = Absent
       THEN Reject("postStatus", 404, user, id, status)
       ELSE /\ \E st \in StockEffects(stockUnits, stockMoves, orderItems[id], id, status) :
                 /\ stockUnits' = st.units
                 /\ stockMoves' = st.moves
            /\ orders' = [orders EXCEPT ![id] = UpdatedOrder(orders[id], status, courierId)]
            /\ audit' = StatusAudit(audit, orders[id], id, user.id, status, courierId)
            /\ last' = Answer("postStatus", 200, user, id, status, Store, Null)
            /\ UNCHANGED <<clock, orderItems, requests, device>>

\* ---------------------------------------------------------------- DELETE /orders/:id
\* a status test that forgets the cancelled orders
NotDeletable_OnlyNew(order) == order.status # "new"

\* order.status !== 'new' && order.status !== 'cancelled'
NotDeletable(order) == order.status # "new" /\ order.status # "cancelled"

DeleteOrder(user, id) ==
    /\ Idle
    /\ IF ~verifyUser(user)
       THEN Reject("deleteOrder", 401, user, id, Null)
       ELSE IF orders[id] = Absent
       THEN Reject("deleteOrder", 404, user, id, Null)
       ELSE IF NotDeletable(orders[id])
       THEN Reject("deleteOrder", 400, user, id, Null)
       ELSE /\ orderItems' = [orderItems EXCEPT ![id] = <<>>]
            /\ orders' = [orders EXCEPT ![id] = Absent]
            /\ audit' = logAudit(audit, "order", id, "delete", user.id, orders[id])
            /\ last' = Answer("deleteOrder", 200, user, id, Null, Store, Null)
            /\ UNCHANGED <<clock, stockUnits, stockMoves, requests, device>>

\* ---------------------------------------------------------------- GET /orders
\* a filter that forgets the orders of tomorrow
CourierFilter_TodayOnly(order, user, today) ==
    /\ order.courierId = user.id
    /\ order.deliveryDate = today
    /\ order.status \in {"confirmed", "picking", "ready", "shipped", "completed"}

\* today.toISOString().split('T')[0]: the calendar day of the server's clock
\* reading, as the day number `today`; tomorrow is the day after it
DeliverableStatuses == {"confirmed", "picking", "ready", "shipped", "completed"}

CourierFilter(order, user, today) ==
    LET isAssignedToCourier == order.courierId = user.id
        isToday == order.deliveryDate = today
        isTomorrow == order.deliveryDate = today + 1
        isDeliverable == order.status \in DeliverableStatuses
    IN  isAssignedToCourier /\ (isToday \/ isTomorrow) /\ isDeliverable

\* orders.sort((a, b) => b.id - a.id)
RECURSIVE SortDesc(_)
SortDesc(ids) ==
    IF ids = {} THEN <<>>
    ELSE LET m == CHOOSE x \in ids : \A y \in ids : y <= x
         IN <<m>> \o SortDesc(ids \ {m})

ListedOrders(user, today) ==
    LET all == {i \in Times : orders[i] # Absent}
    IN IF user.role = "courier"
       THEN {i \in all : CourierFilter(orders[i], user, today)}
       ELSE all

GetOrders(user, today) ==
    /\ Idle
    /\ IF ~verifyUser(user)
       THEN Reject("getOrders", 401, user, 0, today)
       ELSE /\ last' = Answer("getOrders", 200, user, 0, today, Store,
                              SortDesc(ListedOrders(user, today)))
            /\ UNCHANGED <<clock, orders, orderItems, stockUnits, stockMoves, audit, requests, device>>

\* ---------------------------------------------------------------- POST /orders/:id/delivery-status
DeliveryBody(deliveryStatus, proofPhotoUrl, recipientName, lat) ==
    [deliveryStatus |-> deliveryStatus, proofPhotoUrl |-> proofPhotoUrl,
     recipientName |-> recipientName, lat |-> lat]

\* a field assigned `undefined` is dropped when the record is stored
Stored(x) == IF x = Undef THEN Null ELSE x

DeliveredOrder(order, body, now) ==
    IF body.deliveryStatus = "delivered"
    THEN [order EXCEPT !.deliveryStatus = body.deliveryStatus,
                       !.deliveredAt = now,
                       !.deliveredLat = Stored(body.lat),
                       !.proofPhotoUrl = Stored(body.proofPhotoUrl),
                       !.recipientName = Stored(body.recipientName)]
    ELSE [order EXCEPT !.deliveryStatus = body.deliveryStatus]

\* the handler; `op` and `pre` name the caller and the state it started from
DeliveryStatusHandler(op, pre, user, id, body) ==
    /\ Idle
    /\ IF ~verifyUser(user) \/ orders[id] = Absent
          \/ (user.role = "courier" /\ orders[id].courierId # user.id)
       THEN /\ last' = Answer(op, IF ~verifyUser(user) THEN 401
                                  ELSE IF orders[id] = Absent THEN 404 ELSE 403,
                              user, id, body, pre, Null)
            /\ UNCHANGED <<clock, orders, audit>>
       ELSE /\ \E now \in clock..MaxClock :
                 /\ clock' = now
                 /\ orders' = [orders EXCEPT ![id] = DeliveredOrder(orders[id], body, now)]
            /\ audit' = logAudit(audit, "order", id, "delivery_status_change", user.id,
                                 [from |-> orders[id].deliveryStatus,
                                  to |-> body.deliveryStatus, courier |-> user.name])
            /\ last' = Answer(op, 200, user, id, body, pre, Null)
    /\ UNCHANGED <<orderItems, stockUnits, stockMoves, requests>>

\* the request sent by any client other than the courier device's order sheet
PostDeliveryStatus(user, id, body) ==
    /\ DeliveryStatusHandler("postDeliveryStatus", Store, user, id, body)
    /\ UNCHANGED device

\* ---------------------------------------------------------------- DELETE /stock-units/:id
DeleteStockUnit(user, id) ==
    /\ Idle
    /\ IF ~verifyUser(user)
       THEN Reject("deleteStockUnit", 401, user, id, Null)
       ELSE IF stockUnits[id] = Absent
       THEN Reject("deleteStockUnit", 404, user, id, Null)
       ELSE IF stockUnits[id].status = "sold"
       THEN Reject("deleteStockUnit", 400, user, id, Null)
       ELSE /\ stockUnits' = [stockUnits EXCEPT ![id] = Absent]
            /\ audit' = logAudit(audit, "stock_unit", id, "delete", user.id, stockUnits[id])
            /\ last' = Answer("deleteStockUnit", 200, user, id, Null, Store, Null)
            /\ UNCHANGED <<clock, orders, orderItems, stockMoves, requests, device>>

\* ---------------------------------------------------------------- GET /orders/:id
\* the handler makes no verifyUser call
GetOrder(user, id) ==
    /\ Idle
    /\ IF orders[id] = Absent
       THEN Reject("getOrder", 404, user, id, Null)
       ELSE /\ last' = Answer("getOrder", 200, user, id, Null, Store,
                              [order |-> orders[id], items |-> orderItems[id]])
            /\ UNCHANGED <<clock, orders, orderItems, stockUnits, stockMoves, audit,
                           requests, device>>

\* ---------------------------------------------------------------- POST /clear-all
\* Deletes `${prefix}${item.id}` for every record with an id under the listed
\* prefixes; audit records hold no `id` field and stay.
ClearAll(user) ==
    /\ Idle
    /\ IF ~verifyUser(user) \/ user.role # "admin"
       THEN Reject("clearAll", 401, user, 0, Null)
       ELSE /\ stockUnits' = [i \in Times |-> Absent]
            /\ orders' = [i \in Times |-> Absent]
            /\ orderItems' = [i \in Times |-> <<>>]
            /\ stockMoves' = {}
            /\ last' = Answer("clearAll", 200, user, 0, Null, Store, Null)
            /\ UNCHANGED <<clock, audit, requests, device>>

\* ---------------------------------------------------------------- sequential requests
\* Requests handled one after the other, from the empty store.
Next ==
    \/ \E p \in Products, s \in Serials : PostStockUnit(Admin, p, s)
    \/ \E items \in ItemLists : PostOrder(Admin, EmptyPayload, items)
    \/ \E id \in Times, od \in {EmptyPayload, [status |-> "new"]} :
         PutOrder(Admin, id, od, Undef)
    \/ \E id \in Times, s \in LifecycleStatuses : PostStatus(Admin, id, s, Undef)
    \/ \E id \in Times : DeleteOrder(Admin, id)

Spec == Init /\ [][Next]_vars

\* ---------------------------------------------------------------- every endpoint
\* Every endpoint of the order and stock-unit surface, called with a valid
\* credential and without one, from the empty store.
Callers == {Admin, NoUser}

NextApi ==
    \/ \E u \in Callers : PostStockUnit(u, "P1", "S1")
    \/ \E u \in Callers, id \in Times : DeleteStockUnit(u, id)
    \/ \E u \in Callers : GetOrders(u, 1)
    \/ \E u \in Callers, id \in Times : GetOrder(u, id)
    \/ \E u \in Callers : PostOrder(u, EmptyPayload, <<Item("P1", "S1")>>)
    \/ \E u \in Callers, id \in Times : PutOrder(u, id, [status |-> "new"], Undef)
    \/ \E u \in Callers, id \in Times, st \in {"picking", "completed"} :
         PostStatus(u, id, st, Undef)
    \/ \E u \in Callers, id \in Times :
         PostDeliveryStatus(u, id, DeliveryBody("en_route", Undef, Undef, Undef))
    \/ \E u \in Callers, id \in Times : DeleteOrder(u, id)
    \/ \E u \in Callers : ClearAll(u)

SpecApi == Init /\ [][NextApi]_vars

\* ---------------------------------------------------------------- courier deliveries
\* Orders assigned to a courier and the delivery-status requests on them, from
\* the empty store.
DeliveryBodies ==
    {DeliveryBody(ds, Undef, Undef, Undef) : ds \in {"en_route", "failed"}}
      \cup {DeliveryBody("delivered", ph, rn, Undef) :
              ph \in {Undef, "photo"}, rn \in {Undef, "", "R"}}

NextDelivery ==
    \/ \E od \in {EmptyPayload, [courierId |-> "U1"]} : PostOrder(Admin, od, <<>>)
    \/ \E id \in Times, c \in {"U1", "U2"} : PostStatus(Admin, id, "confirmed", c)
    \/ \E u \in {Admin, Courier1, Courier2}, id \in Times, b \in DeliveryBodies :
         PostDeliveryStatus(u, id, b)

SpecDelivery == Init /\ [][NextDelivery]_vars

\* ---------------------------------------------------------------- requests in flight
\* A handler runs from one `await` on the store to the next; between two of
\* its store calls the calls of other requests may take effect.  A request in
\* flight is a record of its inputs, its position and its local constants.

StatusRequest(rid, user, id, status, courierId) ==
    [rid |-> rid, op |-> "postStatus", pc |-> "getOrder", http |-> 0, user |-> user,
     id |-> id, status |-> status, courierId |-> courierId,
     order |-> Absent, items |-> <<>>, i |-> 1, unitId |-> 0, unit |-> Absent,
     reserved |-> {}]

ArrivalRequest(rid, user, productId, serial) ==
    [rid |-> rid, op |-> "postStockUnit", pc |-> "scan", http |-> 0, user |-> user,
     productId |-> productId, serial |-> serial, unitId |-> 0, moveId |-> 0]

Update(r, r2) == requests' = (requests \ {r}) \cup {r2}

BeginStatus(user, id, status, courierId) ==
    /\ Cardinality(requests) < MaxInFlight
    /\ verifyUser(user)
    /\ requests' = requests \cup
          {StatusRequest(Cardinality(requests) + 1, user, id, status, courierId)}
    /\ UNCHANGED <<clock, orders, orderItems, stockUnits, stockMoves, audit, last, device>>

BeginArrival(user, productId, serial) ==
    /\ Cardinality(requests) < MaxInFlight
    /\ verifyUser(user)
    /\ requests' = requests \cup
          {ArrivalRequest(Cardinality(requests) + 1, user, productId, serial)}
    /\ UNCHANGED <<clock, orders, orderItems, stockUnits, stockMoves, audit, last, device>>

\* where the status handler goes after item i of its loop
AfterItem(r, i) == IF i > Len(r.items) THEN "setOrder" ELSE "scan"

\* const order = await kv.get(`order:${id}`)
StatusGetOrderOf(r) ==
    /\ r.op = "postStatus" /\ r.pc = "getOrder"
    /\ Update(r, IF orders[r.id] = Absent
                 THEN [r EXCEPT !.pc = "done", !.http = 404]
                 ELSE [r EXCEPT !.order = orders[r.id],
                                !.pc = IF r.status \in {"picking", "shipped", "completed"}
                                       THEN "getItems" ELSE "setOrder"])
    /\ UNCHANGED <<clock, orders, orderItems, stockUnits, stockMoves, audit, last, device>>

\* const items = await kv.getByPrefix(`order_item:${id}:`)
StatusGetItemsOf(r) ==
    /\ r.op = "postStatus" /\ r.pc = "getItems"
    /\ Update(r, [r EXCEPT !.items = orderItems[r.id], !.i = 1,
                           !.pc = IF orderItems[r.id] = <<>> THEN "setOrder" ELSE "scan"])
    /\ UNCHANGED <<clock, orders, orderItems, stockUnits, stockMoves, audit, last, device>>

\* const stockUnits = await kv.getByPrefix('stock_unit:'); the find and the test
\* of the unit's status run on this copy
StatusScanOf(r) ==
    /\ r.op = "postStatus" /\ r.pc = "scan"
    /\ LET item == r.items[r.i]
           skip == [r EXCEPT !.i = r.i + 1, !.pc = AfterItem(r, r.i + 1)]
       IN IF item.serial = Null \/ FindBySerial(stockUnits, item.serial) = {}
          THEN Update(r, skip)
          ELSE \E u \in FindBySerial(stockUnits, item.serial) :
                 Update(r, IF r.status = "completed" \/ stockUnits[u].status = "available"
                           THEN [r EXCEPT !.unitId = u, !.unit = stockUnits[u],
                                          !.pc = "setUnit"]
                           ELSE skip)
    /\ UNCHANGED <<clock, orders, orderItems, stockUnits, stockMoves, audit, last, device>>

\* await kv.set(`stock_unit:${unit.id}`, { ...unit, status, orderId }): the copy
\* read by the scan is written back
StatusSetUnitOf(r) ==
    /\ r.op = "postStatus" /\ r.pc = "setUnit"
    /\ stockUnits' = [stockUnits EXCEPT ![r.unitId] =
                        IF r.status = "completed"
                        THEN [r.unit EXCEPT !.status = "sold"]
                        ELSE [r.unit EXCEPT !.status = "reserved", !.orderId = r.id]]
    /\ Update(r, [r EXCEPT !.pc = "setMove",
                           !.reserved = IF r.status = "completed" THEN @
                                        ELSE @ \cup {r.unitId}])
    /\ UNCHANGED <<clock, orders, orderItems, stockMoves, audit, last, device>>

\* await kv.set(`stock_move:${moveId}`, ...)
StatusSetMoveOf(r) ==
    /\ r.op = "postStatus" /\ r.pc = "setMove"
    /\ stockMoves' = SetMove(stockMoves,
                             IF r.status = "completed"
                             THEN WriteoffMove(stockMoves, r.items[r.i])
                             ELSE ReserveMove(stockMoves, r.items[r.i]))
    /\ Update(r, [r EXCEPT !.i = r.i + 1, !.pc = AfterItem(r, r.i + 1)])
    /\ UNCHANGED <<clock, orders, orderItems, stockUnits, audit, last, device>>

\* await kv.set(`order:${id}`, updatedOrder), built from the order read at the start
StatusSetOrderOf(r) ==
    /\ r.op = "postStatus" /\ r.pc = "setOrder"
    /\ orders' = [orders EXCEPT ![r.id] = UpdatedOrder(r.order, r.status, r.courierId)]
    /\ Update(r, [r EXCEPT !.pc = "logAudit"])
    /\ UNCHANGED <<clock, orderItems, stockUnits, stockMoves, audit, last, device>>

\* the logAudit calls, then the response
StatusLogAuditOf(r) ==
    /\ r.op = "postStatus" /\ r.pc = "logAudit"
    /\ audit' = StatusAudit(audit, r.order, r.id, r.user.id, r.status, r.courierId)
    /\ Update(r, [r EXCEPT !.pc = "done", !.http = 200])
    /\ UNCHANGED <<clock, orders, orderItems, stockUnits, stockMoves, last, device>>

\* const units = await kv.getByPrefix('stock_unit:'), the uniqueness check,
\* then id = Date.now()
ArrivalScanOf(r) ==
    /\ r.op = "postStockUnit" /\ r.pc = "scan"
    /\ IF r.serial # Null /\ SerialExists(stockUnits, r.productId, r.serial)
       THEN Update(r, [r EXCEPT !.pc = "done", !.http = 400]) /\ UNCHANGED clock
       ELSE \E id \in clock..MaxClock :
              /\ clock' = id
              /\ Update(r, [r EXCEPT !.unitId = id, !.pc = "setUnit"])
    /\ UNCHANGED <<orders, orderItems, stockUnits, stockMoves, audit, last, device>>

\* await kv.set(`stock_unit:${id}`, unit), then moveId = Date.now() + 1
ArrivalSetUnitOf(r) ==
    /\ r.op = "postStockUnit" /\ r.pc = "setUnit"
    /\ stockUnits' = [stockUnits EXCEPT ![r.unitId] = NewUnit(r.productId, r.serial)]
    /\ \E now \in clock..MaxClock :
         /\ clock' = now
         /\ Update(r, [r EXCEPT !.moveId = now + 1, !.pc = "setMove"])
    /\ UNCHANGED <<orders, orderItems, stockMoves, audit, last, device>>

\* await kv.set(`stock_move:${moveId}`, movement)
ArrivalSetMoveOf(r) ==
    /\ r.op = "postStockUnit" /\ r.pc = "setMove"
    /\ stockMoves' = SetMove(stockMoves, ArrivalMove(r.moveId, r.productId, r.serial))
    /\ Update(r, [r EXCEPT !.pc = "logAudit"])
    /\ UNCHANGED <<clock, orders, orderItems, stockUnits, audit, last, device>>

\* await logAudit(...), then the response
ArrivalLogAuditOf(r) ==
    /\ r.op = "postStockUnit" /\ r.pc = "logAudit"
    /\ audit' = logAudit(audit, "stock_unit", r.unitId, "create", r.user.id,
                         NewUnit(r.productId, r.serial))
    /\ Update(r, [r EXCEPT !.pc = "done", !.http = 200])
    /\ UNCHANGED <<clock, orders, orderItems, stockUnits, stockMoves, last, device>>

\* a store call of some request in flight takes effect
StatusGetOrder == \E r \in requests : StatusGetOrderOf(r)
StatusGetItems == \E r \in requests : StatusGetItemsOf(r)
StatusScan == \E r \in requests : StatusScanOf(r)
StatusSetUnit == \E r \in requests : StatusSetUnitOf(r)
StatusSetMove == \E r \in requests : StatusSetMoveOf(r)
StatusSetOrder == \E r \in requests : StatusSetOrderOf(r)
StatusLogAudit == \E r \in requests : StatusLogAuditOf(r)
ArrivalScan == \E r \in requests : ArrivalScanOf(r)
ArrivalSetUnit == \E r \in requests : ArrivalSetUnitOf(r)
ArrivalSetMove == \E r \in requests : ArrivalSetMoveOf(r)
ArrivalLogAudit == \E r \in requests : ArrivalLogAuditOf(r)

\* Stock arrivals and orders of one serialized product, then up to MaxInFlight
\* status-transition and stock-arrival requests whose store calls interleave.
NextConc ==
    \/ PostStockUnit(Admin, "P1", "S1")
    \/ PostOrder(Admin, EmptyPayload, <<Item("P1", "S1")>>)
    \/ \E id \in Times, st \in {"picking", "shipped", "completed"} : BeginStatus(Admin, id, st, Undef)
    \/ BeginArrival(Admin, "P1", "S1")
    \/ StatusGetOrder
    \/ StatusGetItems
    \/ StatusScan
    \/ StatusSetUnit
    \/ StatusSetMove
    \/ StatusSetOrder
    \/ StatusLogAudit
    \/ ArrivalScan
    \/ ArrivalSetUnit
    \/ ArrivalSetMove
    \/ ArrivalLogAudit

SpecConc == Init /\ [][NextConc]_vars

\* ---------------------------------------------------------------- stores of created orders
\* The store after one POST /orders per order id, each at its own clock
\* reading: payloads[i] is the payload of the order created under id i, Absent
\* if none was.
RECURSIVE CreateLog(_, _)
CreateLog(os, i) ==
    IF i > MaxClock THEN <<>>
    ELSE (IF os[i] = Absent THEN <<>>
          ELSE <<[entity |-> "order", entityId |-> i, action |-> "create",
                  userId |-> Admin.id, snapshot |-> os[i]]>>) \o CreateLog(os, i + 1)

CreatedStore(os, its) ==
    /\ clock = MaxClock
    /\ orders = os
    /\ orderItems = [i \in Times |-> IF os[i] = Absent THEN <<>> ELSE its[i]]
    /\ stockUnits = [i \in Times |-> Absent]
    /\ stockMoves = {}
    /\ audit = CreateLog(os, 1)
    /\ requests = {}
    /\ last = Answer("none", 0, NoUser, 0, Null, Null, Null)
    /\ DeviceInit

StatusInputs == LifecycleStatuses \cup {"ready"}

\* ---------------------------------------------------------------- deletes
\* DELETE /orders/:id on every store of orders created in any status, with
\* zero to MaxItems line items.
SameItems == {[i \in 1..n |-> Item("P1", "S1")] : n \in 0..MaxItems}

InitDelete ==
    \E os \in [Times -> {Absent} \cup
                  {NewOrder([status |-> st]) : st \in StatusInputs}] :
      \E its \in [Times -> SameItems] :
        /\ \A i \in Times : os[i] = Absent => its[i] = <<>>
        /\ CreatedStore(os, its)

NextDelete == \E id \in Times : DeleteOrder(Admin, id)

SpecDelete == InitDelete /\ [][NextDelete]_vars

\* ---------------------------------------------------------------- status requests
\* POST /orders/:id/status with every target status, with and without a courier
\* and a credential, on one order created in any status.
InitStatus ==
    \E st \in LifecycleStatuses :
        CreatedStore([i \in Times |-> IF i = 1 THEN NewOrder([status |-> st]) ELSE Absent],
                     [i \in Times |-> <<>>])

NextStatus ==
    \E u \in Callers, id \in Times, s \in LifecycleStatuses, c \in {Undef, "U1"} :
        PostStatus(u, id, s, c)

SpecStatus == InitStatus /\ [][NextStatus]_vars

\* ---------------------------------------------------------------- store failures
\* A kv.set that throws takes the handler to its catch block, which answers 500;
\* the writes made before it stay.  A run of a handler is the sequence of the
\* stores its successive writes leave.

\* the unit and movement writes of the loops, from item i on
RECURSIVE StockTrace(_, _, _, _, _)
StockTrace(st, items, i, id, status) ==
    IF i > Len(items) THEN {<<>>}
    ELSE IF items[i].serial = Null \/ FindBySerial(st.units, items[i].serial) = {}
    THEN StockTrace(st, items, i + 1, id, status)
    ELSE UNION {
        IF status = "completed" \/ st.units[u].status = "available"
        THEN LET st2 == IF status = "completed" THEN WriteOffUnit(st, items[i], u)
                        ELSE ReserveUnit(st, items[i], u, id)
                 st1 == [units |-> st2.units, moves |-> st.moves]
             IN {<<st1, st2>> \o t : t \in StockTrace(st2, items, i + 1, id, status)}
        ELSE StockTrace(st, items, i + 1, id, status)
        : u \in FindBySerial(st.units, items[i].serial)}

\* the runs of the status handler from store S: the unit and movement writes,
\* the order write, then one write per audit entry
StatusTrace(S, id, status, courierId, userId) ==
    LET start == [units |-> S.stockUnits, moves |-> S.stockMoves]
        stocks == IF status \in {"picking", "shipped", "completed"}
                  THEN StockTrace(start, S.orderItems[id], 1, id, status)
                  ELSE {<<>>}
        log == StatusAudit(S.audit, S.orders[id], id, userId, status, courierId)
    IN {LET end == IF t = <<>> THEN start ELSE t[Len(t)]
            written == [S EXCEPT !.stockUnits = end.units, !.stockMoves = end.moves,
                                 !.orders[id] = UpdatedOrder(S.orders[id], status, courierId)]
        IN [k \in 1..Len(t) |->
               [S EXCEPT !.stockUnits = t[k].units, !.stockMoves = t[k].moves]]
             \o <<written>>
             \o [k \in 1..(Len(log) - Len(S.audit)) |->
                    [written EXCEPT !.audit = SubSeq(log, 1, Len(S.audit) + k)]]
        : t \in stocks}

\* the run of the arrival handler that reads the clock as id, then as now2
ArrivalTrace(S, id, now2, productId, serial, userId) ==
    LET s1 == [S EXCEPT !.stockUnits[id] = NewUnit(productId, serial)]
        s2 == [s1 EXCEPT !.stockMoves =
                            SetMove(S.stockMoves, ArrivalMove(now2 + 1, productId, serial))]
        s3 == [s2 EXCEPT !.audit = logAudit(S.audit, "stock_unit", id, "create", userId,
                                            NewUnit(productId, serial))]
    IN <<s1, s2, s3>>

\* the model follows a behaviour up to its first failed request
NoFailureBefore == last.http # 500

\* the store left by a run whose write number k + 1 threw
FailedAt(S, t, k) == IF k = 0 THEN S ELSE t[k]

WriteStore(S) ==
    /\ orders' = S.orders
    /\ orderItems' = S.orderItems
    /\ stockUnits' = S.stockUnits
    /\ stockMoves' = S.stockMoves
    /\ audit' = S.audit

\* POST /orders/:id/status, one of its kv.set calls throwing; `out` keeps the
\* courierId of the request's body
PostStatusStoreFailure(user, id, status, courierId) ==
    /\ Idle /\ NoFailureBefore
    /\ verifyUser(user)
    /\ orders[id] # Absent
    /\ \E t \in StatusTrace(Store, id, status, courierId, user.id) :
         \E k \in 0..(Len(t) - 1) : WriteStore(FailedAt(Store, t, k))
    /\ last' = Answer("postStatus", 500, user, id, status, Store, courierId)
    /\ UNCHANGED <<clock, requests, device>>

\* POST /stock-units, one of its kv.set calls throwing; `out` keeps the clock
\* reading the movement's key is made of
PostStockUnitStoreFailure(user, productId, serial) ==
    /\ Idle /\ NoFailureBefore
    /\ verifyUser(user)
    /\ ~(serial # Null /\ SerialExists(stockUnits, productId, serial))
    /\ \E id \in clock..MaxClock : \E now2 \in id..MaxClock :
         LET t == ArrivalTrace(Store, id, now2, productId, serial, user.id)
         IN /\ \E k \in 0..(Len(t) - 1) :
                 /\ WriteStore(FailedAt(Store, t, k))
                 /\ clock' = IF k = 0 THEN id ELSE now2
            /\ last' = Answer("postStockUnit", 500, user, id, Item(productId, serial),
                              Store, now2)
    /\ UNCHANGED <<requests, device>>

\* One request that a store failure ends, on every store left by at most one
\* arrival of unit (P1, S1) and then one POST /orders per order id, the orders
\* created in any status with zero to MaxItems items of that unit.
InitFail ==
    \E arrived \in BOOLEAN :
      \E os \in [Times -> {Absent} \cup
                    {NewOrder([status |-> st]) : st \in LifecycleStatuses}] :
        \E its \in [Times -> SameItems] :
          /\ \A i \in Times : os[i] = Absent => its[i] = <<>>
          /\ clock = MaxClock
          /\ orders = os
          /\ orderItems = its
          /\ stockUnits = [i \in Times |-> IF arrived /\ i = 1 THEN NewUnit("P1", "S1")
                                           ELSE Absent]
          /\ stockMoves = IF arrived THEN {ArrivalMove(2, "P1", "S1")} ELSE {}
          /\ audit = (IF arrived
                      THEN logAudit(<<>>, "stock_unit", 1, "create", Admin.id,
                                    NewUnit("P1", "S1"))
                      ELSE <<>>) \o CreateLog(os, 1)
          /\ requests = {}
          /\ last = Answer("none", 0, NoUser, 0, Null, Null, Null)
          /\ DeviceInit

NextFail ==
    \/ \E id \in Times, st \in {"picking", "completed", "cancelled"}, c \in {Undef, "U1"} :
         PostStatusStoreFailure(Admin, id, st, c)
    \/ \E p \in Products : PostStockUnitStoreFailure(Admin, p, "S1")

SpecFail == InitFail /\ [][NextFail]_vars

\* ---------------------------------------------------------------- stock arrivals
\* POST /stock-units and DELETE /stock-units/:id from the empty store; Null is
\* a payload whose serial is empty or missing (`if (data.serial)` is false).
NextArrival ==
    \/ \E u \in Callers, p \in Products, s \in Serials \cup {Null} : PostStockUnit(u, p, s)
    \/ \E u \in Callers, id \in Times : DeleteStockUnit(u, id)

SpecArrival == Init /\ [][NextArrival]_vars

\* ---------------------------------------------------------------- order forms
\* The order form's save: POST /orders for a new order, PUT /orders/:id for a
\* stored one, the payload carrying the form's status or none; and the status
\* requests of another session in between.
FormPayloads == {EmptyPayload} \cup {[status |-> st] : st \in {"new", "completed"}}

NextOrders ==
    \/ \E od \in FormPayloads : PostOrder(Admin, od, <<>>)
    \/ \E id \in Times, od \in FormPayloads : PutOrder(Admin, id, od, Undef)
    \/ \E id \in Times, st \in {"confirmed", "cancelled"} : PostStatus(Admin, id, st, Undef)

SpecOrders == Init /\ [][NextOrders]_vars

\* ---------------------------------------------------------------- order lists
\* GET /orders on every store of orders created with any status, courier and
\* delivery day; the server's clock reads day 1 or day 2.
ServerDays == {1, 2}
DeliveryDays == {0, 1, 2, 3}

InitFilter ==
    \E os \in [Times -> {Absent} \cup
                  {NewOrder([status |-> st, courierId |-> c, deliveryDate |-> d]) :
                     st \in StatusInputs, c \in {"U1", "U2"}, d \in DeliveryDays}] :
        CreatedStore(os, [i \in Times |-> <<>>])

NextFilter == \E u \in {Courier1, Admin}, today \in ServerDays : GetOrders(u, today)

SpecFilter == InitFilter /\ [][NextFilter]_vars

\* ---------------------------------------------------------------- OfflineQueue
\* The IndexedDB object store 'actions' (keyPath 'id', autoIncrement) behind
\* the courier device's OfflineQueue.  A record is the action's own fields
\* under `action`, with the key under `id` and the `synced` flag; the
\* `timestamp` field no method reads is left out.

\* the methods class OfflineQueue declares
OfflineQueueMethods == {"init", "addAction", "getPendingActions", "markAsSynced"}

\* actions handed to addAction: with no `id` field of their own, or carrying one
QueueActions ==
    {[type |-> "delivery-status", orderId |-> 1]}
      \cup {[type |-> "delivery-status", orderId |-> 1, id |-> k] : k \in 1..MaxKey}

\* the device state a call started from
Snapshot ==
    [orders |-> orders, orderItems |-> orderItems, stockUnits |-> stockUnits,
     stockMoves |-> stockMoves, audit |-> audit,
     actionStore |-> actionStore, keyGen |-> keyGen, online |-> online]

ServerUnchanged ==
    UNCHANGED <<clock, orders, orderItems, stockUnits, stockMoves, audit, requests>>

\* {...action, timestamp, synced: false} stored under key k
StoredAction(k, action) == [id |-> k, action |-> action, synced |-> FALSE]

HasKey(store, k) == \E r \in store : r.id = k

\* store.add(value): the key is the value's own `id` when it has one (the add
\* fails when that key is taken), the next generated key otherwise; a larger
\* numeric key of the value's own moves the generator up
StoreAdd(store, gen, action) ==
    LET own == Field(action, "id", 0)
    IN IF "id" \notin DOMAIN action
       THEN [ok |-> TRUE, key |-> gen + 1, gen |-> gen + 1,
             store |-> store \cup {StoredAction(gen + 1, action)}]
       ELSE IF HasKey(store, own)
       THEN [ok |-> FALSE, key |-> 0, gen |-> gen, store |-> store]
       ELSE [ok |-> TRUE, key |-> own, gen |-> IF own > gen THEN own ELSE gen,
             store |-> store \cup {StoredAction(own, action)}]

\* store.getAll(): every record, in ascending key order
RECURSIVE GetAll(_)
GetAll(store) ==
    IF store = {} THEN <<>>
    ELSE LET r == CHOOSE x \in store : \A y \in store : x.id <= y.id
         IN <<r>> \o GetAll(store \ {r})

NotSynced(a) == ~a.synced

PendingActions(store) == SelectSeq(GetAll(store), NotSynced)

\* queue.addAction(action); answers the record's key, 0 when the add failed
AddAction(action) ==
    /\ "id" \notin DOMAIN action => keyGen < MaxKey
    /\ LET res == StoreAdd(actionStore, keyGen, action)
       IN /\ actionStore' = res.store
          /\ keyGen' = res.gen
          /\ last' = Answer("addAction", 0, NoUser, res.key, action, Snapshot, res.key)
    /\ ServerUnchanged
    /\ UNCHANGED <<online, toast, syncEvent, app>>

\* queue.getPendingActions()
GetPendingActions ==
    /\ last' = Answer("getPendingActions", 0, NoUser, 0, Null, Snapshot,
                      PendingActions(actionStore))
    /\ ServerUnchanged
    /\ UNCHANGED device

\* queue.markAsSynced(id): store.delete(id)
MarkAsSynced(id) ==
    /\ actionStore' = {r \in actionStore : r.id # id}
    /\ last' = Answer("markAsSynced", 0, NoUser, id, Null, Snapshot, Null)
    /\ ServerUnchanged
    /\ UNCHANGED <<keyGen, online, toast, syncEvent, app>>

\* ---------------------------------------------------------------- courier device
\* apiCall's failure: a connectivity error (its message holds 'Offline') when
\* the network is unreachable, the server's error for any other failed answer
ApiError(isOnline, http) ==
    IF ~isOnline THEN "Offline" ELSE IF http # 200 THEN "HttpError" ELSE "none"

\* getCurrentLocation(): {lat, lon} of the position read, or a rejection
\* (NoLocation) that handleUpdateStatus catches, leaving `location` null
NoLocation == [rejected |-> TRUE]
Locations == {NoLocation, [lat |-> "55.75", lon |-> "37.61"]}

\* location?.latitude: the field `latitude` of what getCurrentLocation resolved
Latitude(location) ==
    IF location = NoLocation THEN Undef ELSE Field(location, "latitude", Undef)

\* the body the order sheet sends: the position goes out under the key
\* deliveredLat (and deliveredLng)
SheetPayload(newStatus, proofPhoto, recipientName, location) ==
    [deliveryStatus |-> newStatus, proofPhotoUrl |-> proofPhoto,
     recipientName |-> IF recipientName = "" THEN Undef ELSE recipientName,
     deliveredLat |-> Latitude(location)]

\* const { deliveryStatus, proofPhotoUrl, recipientName, lat } = await c.req.json()
StatusPayload(newStatus, proofPhoto, recipientName, location) ==
    LET sent == SheetPayload(newStatus, proofPhoto, recipientName, location)
    IN DeliveryBody(sent.deliveryStatus, sent.proofPhotoUrl, sent.recipientName,
                    Field(sent, "lat", Undef))

\* the device state handleUpdateStatus started from, with the position it read
SheetSnapshot(location) ==
    [orders |-> orders, orderItems |-> orderItems, stockUnits |-> stockUnits,
     stockMoves |-> stockMoves, audit |-> audit,
     actionStore |-> actionStore, keyGen |-> keyGen, online |-> online,
     location |-> location]

\* handleUpdateStatus(newStatus) of the courier's order sheet
HandleUpdateStatus(user, id, newStatus, proofPhoto, recipientName, location) ==
    LET payload == StatusPayload(newStatus, proofPhoto, recipientName, location)
        Snapshot0 == SheetSnapshot(location)
    IN IF newStatus = "delivered" /\ (proofPhoto = Null \/ recipientName = "")
       THEN /\ toast' = "proof_required"
            /\ last' = Answer("handleUpdateStatus", 0, user, id, payload, Snapshot0, "none")
            /\ ServerUnchanged
            /\ UNCHANGED <<actionStore, keyGen, online, syncEvent, app>>
       ELSE IF ApiError(online, 0) = "Offline"
       THEN \* catch: error.message.includes('Offline') -> await queue.add(operation)
            /\ IF "add" \in OfflineQueueMethods
               THEN LET res == StoreAdd(actionStore, keyGen, payload)
                    IN /\ actionStore' = res.store
                       /\ keyGen' = res.gen
                       /\ toast' = "saved_will_sync"
               ELSE \* TypeError: queue.add is not a function -> the outer catch
                    /\ toast' = "error"
                    /\ UNCHANGED <<actionStore, keyGen>>
            /\ last' = Answer("handleUpdateStatus", 0, user, id, payload, Snapshot0, "Offline")
            /\ ServerUnchanged
            /\ UNCHANGED <<online, syncEvent, app>>
       ELSE /\ DeliveryStatusHandler("handleUpdateStatus", Snapshot0, user, id, payload)
            /\ toast' = IF ApiError(online, last'.http) = "none" THEN "updated" ELSE "error"
            /\ UNCHANGED <<actionStore, keyGen, online, syncEvent, app>>

\* window 'offline' / 'online' events
GoOffline ==
    /\ online
    /\ online' = FALSE
    /\ ServerUnchanged
    /\ UNCHANGED <<last, actionStore, keyGen, toast, syncEvent, app>>

\* the 'online' listener only shows the connection notice
GoOnline ==
    /\ ~online
    /\ online' = TRUE
    /\ ServerUnchanged
    /\ UNCHANGED <<last, actionStore, keyGen, toast, syncEvent, app>>

\* the browser hands the service worker a 'sync-orders' sync event while the
\* device is connected
DispatchSync ==
    /\ online /\ ~syncEvent
    /\ syncEvent' = TRUE
    /\ ServerUnchanged
    /\ UNCHANGED <<last, actionStore, keyGen, online, toast, app>>

\* the service worker's 'sync' listener: syncOrders() writes a console line
SyncOrders ==
    /\ syncEvent
    /\ syncEvent' = FALSE
    /\ ServerUnchanged
    /\ UNCHANGED <<last, actionStore, keyGen, online, toast, app>>

\* One order assigned to courier U1, whose device goes on and off line and
\* gets no position.
InitDevice ==
    CreatedStore([i \in Times |-> IF i = 1 THEN NewOrder([courierId |-> "U1"]) ELSE Absent],
                 [i \in Times |-> <<>>])

NextDevice ==
    \/ \E id \in Times, ns \in {"en_route", "delivered", "failed"},
          ph \in {Null, "photo"}, rn \in {"", "R"} :
         HandleUpdateStatus(Courier1, id, ns, ph, rn, NoLocation)
    \/ \E a \in QueueActions : AddAction(a)
    \/ \E k \in 1..MaxKey : MarkAsSynced(k)
    \/ GetPendingActions
    \/ GoOffline
    \/ GoOnline
    \/ DispatchSync
    \/ SyncOrders

\* the browser keeps dispatching sync events while connected and the service
\* worker handles each one
SpecDevice ==
    InitDevice /\ [][NextDevice]_vars /\ WF_vars(DispatchSync) /\ WF_vars(SyncOrders)

\* One order assigned to courier U1, whose device stays connected and reads a
\* position or fails to.
NextGeo ==
    \E id \in Times, ns \in {"en_route", "delivered", "failed"}, ph \in {Null, "photo"},
       loc \in Locations :
        HandleUpdateStatus(Courier1, id, ns, ph, "R", loc)

SpecGeo == InitDevice /\ [][NextGeo]_vars

\* ---------------------------------------------------------------- roles
\* getRolePermissions and canAccessPage of utils/roles.ts.
ValidRoles == {"admin", "sales_manager", "warehouse", "accountant", "courier"}

\* the permissions each role's entry sets to true
Granted ==
    [admin |->
        {"canViewOrders", "canViewCalendar", "canViewProducts",
         "canViewCustomers", "canViewReports", "canViewSettings",
         "canViewGroups", "canViewDashboard", "canCreateOrder",
         "canEditOrder", "canDeleteOrder", "canAssignCourier",
         "canCreateProduct", "canEditProduct", "canDeleteProduct",
         "canManageStock", "canViewPurchasePrice", "canCreateCustomer",
         "canEditCustomer", "canDeleteCustomer", "canViewSalesReports",
         "canViewMarginReports", "canViewCourierReports", "canViewAudit",
         "canManageUsers"},
     sales_manager |->
        {"canViewOrders", "canViewCalendar", "canViewProducts",
         "canViewCustomers", "canViewReports", "canViewSettings",
         "canViewDashboard", "canCreateOrder", "canEditOrder",
         "canAssignCourier", "canCreateCustomer", "canEditCustomer",
         "canViewSalesReports", "canViewCourierReports", "canViewAudit"},
     warehouse |->
        {"canViewOrders", "canViewProducts", "canViewSettings",
         "canViewGroups", "canCreateProduct", "canEditProduct",
         "canManageStock", "canViewPurchasePrice", "canViewAudit"},
     accountant |->
        {"canViewOrders", "canViewProducts", "canViewCustomers",
         "canViewReports", "canViewSettings", "canViewDashboard",
         "canEditProduct", "canViewPurchasePrice", "canViewSalesReports",
         "canViewMarginReports", "canViewCourierReports", "canViewAudit"},
     courier |->
        {"canViewOrders", "canViewCalendar", "canViewSettings",
         "canUpdateDeliveryStatus", "isCourierMode"}]

PermissionNames == UNION {Granted[r] : r \in ValidRoles}

\* an unknown role is given the courier's entry
getRolePermissions(role) ==
    LET safeRole == IF role \in ValidRoles THEN role ELSE "courier"
    IN [k \in PermissionNames |-> k \in Granted[safeRole]]

\* a page table that looks the products page up under the orders permission
PagePermissions_ProductsAsOrders ==
    [orders |-> "canViewOrders", calendar |-> "canViewCalendar",
     products |-> "canViewOrders", customers |-> "canViewCustomers",
     reports |-> "canViewReports", settings |-> "canViewSettings",
     groups |-> "canViewGroups", dashboard |-> "canViewDashboard",
     audit |-> "canViewAudit"]

PagePermissions ==
    [orders |-> "canViewOrders", calendar |-> "canViewCalendar",
     products |-> "canViewProducts", customers |-> "canViewCustomers",
     reports |-> "canViewReports", settings |-> "canViewSettings",
     groups |-> "canViewGroups", dashboard |-> "canViewDashboard",
     audit |-> "canViewAudit"]

\* `permission ? permissions[permission] : false`; a page the table does not
\* hold yields no permission, or one that names no entry of the role's
\* permissions, and callers test either result as false
canAccessPage(user, page) ==
    IF user = NoUser THEN FALSE
    ELSE IF page \in DOMAIN PagePermissions
    THEN getRolePermissions(user.role)[PagePermissions[page]]
    ELSE FALSE

\* the users of the app: one of each role, one with the role the server
\* gives an account that has none ('manager'), and nobody
AppUsers ==
    {[id |-> r, name |-> r, role |-> r] : r \in ValidRoles \cup {"manager"}}
PageNames == DOMAIN PagePermissions \cup {"profile", "users", "stock", "login", "constructor"}

GetRolePermissions(role) ==
    /\ last' = Answer("getRolePermissions", 0, NoUser, 0, role, Null, getRolePermissions(role))
    /\ ServerUnchanged
    /\ UNCHANGED device

CanAccessPage(user, page) ==
    /\ last' = Answer("canAccessPage", 0, user, 0, page, Null, canAccessPage(user, page))
    /\ ServerUnchanged
    /\ UNCHANGED device

NextRoles ==
    \/ \E role \in ValidRoles \cup {"manager"} : GetRolePermissions(role)
    \/ \E user \in AppUsers \cup {NoUser}, page \in PageNames : CanAccessPage(user, page)

SpecRoles == Init /\ [][NextRoles]_vars

\* ---------------------------------------------------------------- AppContent
\* The routing of the AppContent component: its state hooks, the [user] effect,
\* the navigation handlers and renderContent.  A state update makes a render
\* due; React renders again before it takes the next event.

DeviceRest == <<actionStore, keyGen, online, toast, syncEvent>>

\* pages.find(page => canAccessPage(user, page)), Undef when none is found
RECURSIVE FindAccessible(_, _, _)
FindAccessible(pages, i, user) ==
    IF i > Len(pages) THEN Undef
    ELSE IF canAccessPage(user, pages[i]) THEN pages[i]
    ELSE FindAccessible(pages, i + 1, user)

PreferredPages == <<"dashboard", "orders", "calendar", "products", "customers", "reports">>

\* a redirect list that holds the reports and dashboard pages only
AvailablePages_ReportsOnly == <<"reports", "dashboard">>

AvailablePages == <<"orders", "calendar", "products", "customers", "reports", "dashboard">>

\* the switch of renderContent
PageComponent(page, user) ==
    CASE page = "dashboard" -> "Dashboard"
      [] page = "products" -> "Products"
      [] page = "groups" -> "Groups"
      [] page = "orders" -> "Orders"
      [] page = "customers" -> "Customers"
      [] page = "calendar" -> IF getRolePermissions(user.role)["isCourierMode"]
                              THEN "Orders" ELSE "CalendarView"
      [] page = "reports" -> "Reports"
      [] page = "audit" -> "Audit"
      [] page = "settings" -> "Settings"
      [] OTHER -> "Dashboard"

AppStep(next) ==
    /\ app' = next
    /\ ServerUnchanged
    /\ UNCHANGED DeviceRest

\* useAuth() hands AppContent a user
SignIn(user) ==
    /\ app.user = NoUser /\ ~app.stale /\ ~app.effect
    /\ AppStep([app EXCEPT !.user = user, !.stale = TRUE, !.effect = TRUE])
    /\ UNCHANGED last

\* useEffect(..., [user]), after the render that followed a change of user
InitialPageEffect ==
    /\ app.effect /\ ~app.stale
    /\ LET firstAccessible == FindAccessible(PreferredPages, 1, app.user)
       IN IF /\ app.user # NoUser
             /\ firstAccessible # Undef
             /\ ~canAccessPage(app.user, app.currentPage)
          THEN AppStep([app EXCEPT !.effect = FALSE, !.currentPage = firstAccessible,
                                   !.stale = TRUE])
          ELSE AppStep([app EXCEPT !.effect = FALSE])
    /\ UNCHANGED last

\* an event reaches a handler of the screen once rendering and effects are done
Interactive == app.user # NoUser /\ ~app.stale /\ ~app.effect

HandleNavigate(page) ==
    /\ Interactive
    /\ AppStep([app EXCEPT !.currentPage = page, !.selectedProductId = 0,
                            !.selectedOrderId = 0, !.isCreatingOrder = FALSE,
                            !.stale = TRUE])
    /\ UNCHANGED last

\* onViewProduct of <Products>
HandleViewProduct(productId) ==
    /\ Interactive /\ app.screen = "Products"
    /\ AppStep([app EXCEPT !.selectedProductId = productId, !.stale = TRUE])
    /\ UNCHANGED last

\* onBack of <ProductCard>
HandleBackToProducts ==
    /\ Interactive /\ app.screen = "ProductCard"
    /\ AppStep([app EXCEPT !.selectedProductId = 0, !.stale = TRUE])
    /\ UNCHANGED last

\* onViewOrder of <Orders>
HandleViewOrder(orderId) ==
    /\ Interactive /\ app.screen = "Orders"
    /\ AppStep([app EXCEPT !.selectedOrderId = orderId, !.stale = TRUE])
    /\ UNCHANGED last

\* onCreateOrder of <Orders>
HandleCreateOrder ==
    /\ Interactive /\ app.screen = "Orders"
    /\ AppStep([app EXCEPT !.isCreatingOrder = TRUE, !.selectedOrderId = 0, !.stale = TRUE])
    /\ UNCHANGED last

\* onBack of <OrderCard>
HandleBackToOrders ==
    /\ Interactive /\ app.screen = "OrderCard"
    /\ AppStep([app EXCEPT !.selectedOrderId = 0, !.isCreatingOrder = FALSE,
                            !.stale = TRUE])
    /\ UNCHANGED last

\* one render of AppContent: <Login /> without a user, renderContent() with one
Render ==
    /\ app.stale
    /\ LET show(screen, page) == [app EXCEPT !.stale = FALSE, !.screen = screen,
                                             !.rendered = page]
           firstAvailable == FindAccessible(AvailablePages, 1, app.user)
           next ==
               IF app.user = NoUser THEN show("Login", "none")
               ELSE IF app.selectedProductId # 0 THEN show("ProductCard", "none")
               ELSE IF app.selectedOrderId # 0 \/ app.isCreatingOrder
               THEN show("OrderCard", "none")
               ELSE IF ~canAccessPage(app.user, app.currentPage)
               THEN IF firstAvailable # Undef /\ firstAvailable # app.currentPage
                    THEN [app EXCEPT !.currentPage = firstAvailable, !.screen = "null",
                                     !.rendered = "none"]
                    ELSE show("null", "none")
               ELSE show(PageComponent(app.currentPage, app.user), app.currentPage)
       IN /\ AppStep(next)
          /\ last' = Answer("renderContent", 0, app.user, 0, app.currentPage, Null,
                            next.screen)

\* A user of any role signs in and moves through the app.
NextApp ==
    \/ \E user \in AppUsers : SignIn(user)
    \/ InitialPageEffect
    \/ \E page \in PageNames : HandleNavigate(page)
    \/ HandleViewProduct(1)
    \/ HandleBackToProducts
    \/ HandleViewOrder(1)
    \/ HandleCreateOrder
    \/ HandleBackToOrders
    \/ Render

\* React carries out every render and every effect that is due
SpecApp == Init /\ [][NextApp]_vars /\ WF_vars(Render) /\ WF_vars(InitialPageEffect)

\* ---------------------------------------------------------------- deletes by role
\* DELETE /orders/:id by a caller of each kind of role, as the orders list's
\* handleDelete sends it, on the stores of the deletes above.
SalesManager == [id |-> "M1", name |-> "Manager", role |-> "sales_manager"]

NextDeleteByRole ==
    \E user \in {Admin, SalesManager, Courier1}, id \in Times : DeleteOrder(user, id)

SpecDeleteByRole == InitDelete /\ [][NextDeleteByRole]_vars

\* ---------------------------------------------------------------- order reads
\* The two order-read endpoints, asked by a courier and by an admin on the
\* stores of the courier filter above.
NextRead ==
    \E u \in {Courier1, Admin} :
        \/ \E today \in ServerDays : GetOrders(u, today)
        \/ \E id \in Times : GetOrder(u, id)

SpecRead == InitFilter /\ [][NextRead]_vars

\* ================================================================ properties
\* the order a status/delete/update request named, as stored before the request
PreOrder == last.pre.orders[last.id]
PreItems == last.pre.orderItems[last.id]
Transitioned(targets) ==
    /\ last.op = "postStatus"
    /\ last.http = 200
    /\ last.arg \in targets

\* units holding the pair (productId, serial) of an order item
UnitsOf(units, item) ==
    {u \in Times : /\ units[u] # Absent
                   /\ units[u].productId = item.productId
                   /\ units[u].serial = item.serial}

\* movements of one type written by the last request for an item's pair
NewMoves(type, item) ==
    {m \in stockMoves \ last.pre.stockMoves :
        m.type = type /\ m.productId = item.productId /\ m.serial = item.serial}

\* C3: after a transition to picking or shipped, every unit that was available
\* and holds the (productId, serial) of a serialized item of the order is
\* reserved for that order, and the transition wrote exactly one reserve
\* movement for it.
C3_ReserveAvailableUnits ==
    Transitioned({"picking", "shipped"}) =>
        \A i \in 1..Len(PreItems) : PreItems[i].serial # Null =>
            \A u \in UnitsOf(last.pre.stockUnits, PreItems[i]) :
                last.pre.stockUnits[u].status = "available" =>
                    /\ stockUnits[u].status = "reserved"
                    /\ stockUnits[u].orderId = last.id
                    /\ Cardinality(NewMoves("reserve", PreItems[i])) = 1

\* C4: after a transition to completed, the unit of every serialized item of
\* the order is sold, whatever its status was, and the transition wrote exactly
\* one writeoff movement for it.
C4_CompletedSellsUnits ==
    Transitioned({"completed"}) =>
        \A i \in 1..Len(PreItems) : PreItems[i].serial # Null =>
            \A u \in UnitsOf(last.pre.stockUnits, PreItems[i]) :
                /\ stockUnits[u].status = "sold"
                /\ Cardinality(NewMoves("writeoff", PreItems[i])) = 1

\* C5: a delete of an existing order succeeds (the order and its items are
\* removed) exactly when its status is new or cancelled; otherwise it is
\* rejected and the order, its items and the audit log are as before.
C5_DeleteIffNewOrCancelled ==
    (last.op = "deleteOrder" /\ last.http # 401 /\ PreOrder # Absent) =>
        /\ last.http = 200 <=> PreOrder.status \in {"new", "cancelled"}
        /\ last.http = 200 => orders[last.id] = Absent /\ orderItems[last.id] = <<>>
        /\ last.http # 200 =>
              /\ last.http = 400
              /\ orders = last.pre.orders
              /\ orderItems = last.pre.orderItems
              /\ audit = last.pre.audit

\* the adjacency table of the order lifecycle
Lifecycle == <<"new", "in_progress", "confirmed", "picking", "shipped", "completed">>
Adjacent(from, to) ==
    \/ \E i \in 1..(Len(Lifecycle) - 1) : Lifecycle[i] = from /\ Lifecycle[i + 1] = to
    \/ to = "cancelled" /\ from \notin {"completed", "cancelled"}

\* C6: a status request is accepted only for a target adjacent to the order's
\* status; any other target is rejected and nothing in the store changes.
C6_OnlyAdjacentTransitions ==
    (last.op = "postStatus" /\ last.http # 401 /\ PreOrder # Absent) =>
        IF Adjacent(PreOrder.status, last.arg)
        THEN TRUE
        ELSE last.http # 200 /\ Store = last.pre

\* C7: a status-transition or order-update request leaves the status of every
\* completed or cancelled order as it was.
C7_TerminalStatuses ==
    last.op \in {"postStatus", "putOrder"} =>
        \A id \in Times :
            (last.pre.orders[id] # Absent
               /\ last.pre.orders[id].status \in {"completed", "cancelled"}) =>
                /\ orders[id] # Absent
                /\ orders[id].status = last.pre.orders[id].status

\* ---------------------------------------------------------------- C9, C10
MissingProof(body) ==
    \/ body.recipientName \in {Undef, Null, ""}
    \/ body.proofPhotoUrl \in {Undef, Null, ""}

\* C9: a `delivered` request without a non-empty recipient name or without a
\* photo reference is rejected and persists nothing: the order and the audit
\* log are as before.
C9_DeliveredNeedsProof ==
    (/\ last.op = "postDeliveryStatus"
     /\ PreOrder # Absent
     /\ last.arg.deliveryStatus = "delivered"
     /\ MissingProof(last.arg)) =>
        /\ last.http # 200
        /\ orders = last.pre.orders
        /\ audit = last.pre.audit

\* C10: a delivery-status request from an actor who is not the order's
\* assigned courier is rejected as unauthorized and leaves the order as it was.
C10_OnlyAssignedCourier ==
    (/\ last.op = "postDeliveryStatus"
     /\ PreOrder # Absent
     /\ last.user.id # PreOrder.courierId) =>
        /\ last.http \in {401, 403}
        /\ orders = last.pre.orders

\* ---------------------------------------------------------------- C5, C8
\* a rejected delete of a shipped order that has line items
C5_Witness ==
    /\ last.op = "deleteOrder"
    /\ PreOrder # Absent
    /\ last.http = 400
    /\ PreOrder.status = "shipped"
    /\ PreItems # <<>>
    /\ orders[last.id] = PreOrder

Range(seq) == {seq[i] : i \in 1..Len(seq)}

Done(r, targets) == r.op = "postStatus" /\ r.pc = "done" /\ r.http = 200 /\ r.status \in targets

\* C1: when two answered picking/shipped requests for two different orders
\* carry the same (productId, serial) and the unit got reserved, exactly one of
\* the two reserved it (the other skipped the item), the unit is reserved for
\* one of the two orders, and exactly one reserve movement exists for it.
C1_OneReservationWins ==
    \A r1, r2 \in requests :
        (/\ Done(r1, {"picking", "shipped"}) /\ Done(r2, {"picking", "shipped"})
         /\ r1.id # r2.id
         /\ r1.items # <<>> /\ r1.items = r2.items
         /\ r1.reserved \cup r2.reserved # {}) =>
            /\ Cardinality(r1.reserved) + Cardinality(r2.reserved) = 1
            /\ \A u \in r1.reserved \cup r2.reserved :
                 /\ stockUnits[u].status = "reserved"
                 /\ stockUnits[u].orderId \in {r1.id, r2.id}
            /\ Cardinality({m \in stockMoves : m.type = "reserve"
                              /\ m.productId = r1.items[1].productId
                              /\ m.serial = r1.items[1].serial}) = 1

\* C2: no two stored units hold the same (productId, serial).
C2_UniqueSerialPerProduct ==
    \A u1, u2 \in Times :
        (/\ stockUnits[u1] # Absent /\ stockUnits[u2] # Absent
         /\ stockUnits[u1].productId = stockUnits[u2].productId
         /\ stockUnits[u1].serial = stockUnits[u2].serial) => u1 = u2

\* ---------------------------------------------------------------- C11
\* the delivery sub-state machine; an order no courier has acted on yet holds
\* no deliveryStatus and counts as assigned
DeliveryAdjacent(from, to) ==
    \/ from \in {Null, "assigned"} /\ to = "en_route"
    \/ from = "en_route" /\ to \in {"delivered", "failed"}

\* C11: a delivery-status request changes deliveryStatus only along
\* assigned -> en_route -> delivered | failed, and a `failed` request by the
\* assigned courier on an en_route order is accepted without proof.
C11_DeliveryStateMachine ==
    (last.op = "postDeliveryStatus" /\ PreOrder # Absent) =>
        /\ orders[last.id].deliveryStatus # PreOrder.deliveryStatus =>
              DeliveryAdjacent(PreOrder.deliveryStatus, orders[last.id].deliveryStatus)
        /\ (/\ PreOrder.deliveryStatus = "en_route"
            /\ last.arg.deliveryStatus = "failed"
            /\ last.user.id = PreOrder.courierId) =>
              last.http = 200 /\ orders[last.id].deliveryStatus = "failed"

\* ---------------------------------------------------------------- C12
\* the last request is a second replay of one `delivered` confirmation: the
\* write before it was the same courier's confirmation of the same order, and
\* the order holds what the request's payload stores
SecondReplay ==
    /\ last.op = "postDeliveryStatus"
    /\ last.http = 200
    /\ PreOrder # Absent
    /\ last.user.id = PreOrder.courierId
    /\ last.arg.deliveryStatus = "delivered"
    /\ PreOrder.deliveryStatus = "delivered"
    /\ PreOrder.proofPhotoUrl = Stored(last.arg.proofPhotoUrl)
    /\ PreOrder.recipientName = Stored(last.arg.recipientName)
    /\ PreOrder.deliveredLat = Stored(last.arg.lat)
    /\ last.pre.audit # <<>>
    /\ LET e == last.pre.audit[Len(last.pre.audit)]
       IN /\ e.action = "delivery_status_change"
          /\ e.entityId = last.id
          /\ e.userId = last.user.id
          /\ e.snapshot.to = "delivered"

\* C12: replaying a `delivered` confirmation a second time leaves the order as
\* the first replay left it, deliveredAt included, and writes no audit entry.
C12_ReplayIdempotent ==
    SecondReplay =>
        /\ orders[last.id] = PreOrder
        /\ audit = last.pre.audit

\* ---------------------------------------------------------------- C13, C14, C15
\* C13: a delivery-status call of the order sheet that fails because the
\* network is unreachable stores the operation in the offline queue and shows
\* the "saved, will sync" notice; one that fails for another reason stores
\* nothing and shows the error.
C13_OfflineFailureEnqueued ==
    last.op = "handleUpdateStatus" =>
        /\ last.out = "Offline" =>
              /\ toast = "saved_will_sync"
              /\ Len(PendingActions(actionStore))
                   = Len(PendingActions(last.pre.actionStore)) + 1
              /\ \E r \in actionStore \ last.pre.actionStore : r.action = last.arg
        /\ (last.out = Null /\ last.http # 200) =>
              /\ toast = "error"
              /\ actionStore = last.pre.actionStore

\* C14: an action that is in the queue while the device is connected is
\* eventually replayed: it leaves the queue, or its failure is shown, unless
\* the connection is lost again first.
C14_PendingEventuallyReplayed ==
    \A k \in 1..MaxKey :
        (online /\ HasKey(actionStore, k))
            ~> (~HasKey(actionStore, k) \/ toast = "error" \/ ~online)

\* C15: addAction puts the action at the end of what getPendingActions
\* returns, markAsSynced(id) takes the action with that id out and no other,
\* and getPendingActions returns the actions in the order they were added.
C15_QueueContract ==
    /\ (last.op = "addAction" /\ last.out # 0) =>
          PendingActions(actionStore)
            = Append(PendingActions(last.pre.actionStore), StoredAction(last.out, last.arg))
    /\ last.op = "markAsSynced" =>
          LET Others(r) == r.id # last.id
          IN PendingActions(actionStore)
               = SelectSeq(PendingActions(last.pre.actionStore), Others)
    /\ last.op = "getPendingActions" => last.out = PendingActions(actionStore)

\* ---------------------------------------------------------------- C16
\* C16: a request without a valid credential is answered 401 and changes
\* nothing in the store, whatever the endpoint.
C16_UnauthorizedRejected ==
    (last.op # "none" /\ last.user = NoUser) =>
        /\ last.http = 401
        /\ Store = last.pre

\* ---------------------------------------------------------------- C17
\* C17: a unit that is sold stays in the store, sold, over every step of
\* status-transition, stock-arrival and stock-unit-delete requests.
C17_SoldNeverResurrected ==
    [][\A u \in Times :
         (stockUnits[u] # Absent /\ stockUnits[u].status = "sold") =>
             (stockUnits'[u] # Absent /\ stockUnits'[u].status = "sold")]_vars

\* ---------------------------------------------------------------- C18, C19
\* C18: every reserved unit is reserved for an order that exists and is
\* neither new nor cancelled.
C18_NoReservationForDeadOrder ==
    \A u \in Times :
        (stockUnits[u] # Absent /\ stockUnits[u].status = "reserved") =>
            /\ stockUnits[u].orderId \in Times
            /\ orders[stockUnits[u].orderId] # Absent
            /\ orders[stockUnits[u].orderId].status \notin {"new", "cancelled"}

\* C19: a unit that is available or sold holds no order reference.
C19_OrderIdOnlyWhileReserved ==
    \A u \in Times :
        (stockUnits[u] # Absent /\ stockUnits[u].status \in {"available", "sold"}) =>
            stockUnits[u].orderId = 0

\* ---------------------------------------------------------------- C20
\* C20: every step of the API keeps each stored movement and each stored
\* audit entry as it was written.
C20_WriteOnceRecords ==
    [][/\ stockMoves \subseteq stockMoves'
       /\ Len(audit') >= Len(audit)
       /\ SubSeq(audit', 1, Len(audit)) = audit]_vars

\* ---------------------------------------------------------------- C21
\* the audit entries the last request wrote
NewAudit == SubSeq(audit, Len(last.pre.audit) + 1, Len(audit))

CompletedStores ==
    IF last.op = "postStatus"
    THEN {t[Len(t)] : t \in StatusTrace(last.pre, last.id, last.arg, last.out,
                                        last.user.id)}
    ELSE {ArrivalTrace(last.pre, last.id, last.out, last.arg.productId, last.arg.serial,
                       last.user.id)[3]}

\* C22: after a status or stock-arrival request that a store failure ended, the
\* stored records are those before the request or those of the completed
\* request.
C22_NoPartialWrites ==
    (last.http = 500) => (Store = last.pre \/ Store \in CompletedStores)

\* ---------------------------------------------------------------- C23
\* C23: a stock arrival whose (productId, serial) is held by a stored unit is
\* answered 400 and writes no unit, no movement and no audit entry.
C23_DuplicateArrivalRejected ==
    (/\ last.op = "postStockUnit"
     /\ last.http # 401
     /\ \E i \in Times : /\ last.pre.stockUnits[i] # Absent
                          /\ last.pre.stockUnits[i].productId = last.arg.productId
                          /\ last.pre.stockUnits[i].serial = last.arg.serial) =>
        /\ last.http = 400
        /\ Store = last.pre

\* ---------------------------------------------------------------- C24
\* C24: a create request stores the order with status new whatever its
\* payload holds, and an update request leaves the stored status as it was.
C24_StatusOnlyByTransition ==
    /\ (last.op = "postOrder" /\ last.http = 200) => orders[last.id].status = "new"
    /\ (last.op = "putOrder" /\ last.http = 200) => orders[last.id].status = PreOrder.status

\* ---------------------------------------------------------------- C25
\* C25: a `delivered` confirmation of the order sheet that the server accepts
\* stamps deliveredAt and stores the latitude the device read; when the read
\* failed, the confirmation is sent all the same and stores no latitude.
C25_CoordinatesPersisted ==
    (/\ last.op = "handleUpdateStatus"
     /\ last.arg.deliveryStatus = "delivered"
     /\ last.out # "none"
     /\ PreOrder # Absent) =>
        /\ last.http = 200
        /\ orders[last.id].deliveredAt \in Times
        /\ orders[last.id].deliveredLat =
              IF last.pre.location = NoLocation THEN Null ELSE last.pre.location.lat

\* ---------------------------------------------------------------- C26
\* the view permission of each known page
ViewPermission ==
    {<<"orders", "canViewOrders">>, <<"calendar", "canViewCalendar">>,
     <<"products", "canViewProducts">>, <<"customers", "canViewCustomers">>,
     <<"reports", "canViewReports">>, <<"settings", "canViewSettings">>,
     <<"groups", "canViewGroups">>, <<"dashboard", "canViewDashboard">>,
     <<"audit", "canViewAudit">>}

\* the role whose permissions a user gets
EffectiveRole(role) == IF role \in ValidRoles THEN role ELSE "courier"

\* C26: canAccessPage(user, page) is true exactly when there is a user, the
\* page is a known page and the permissions of the user's role (the courier's
\* for an unknown role) grant the page's view permission; a courier is denied
\* products and allowed orders, and the courier's permissions have
\* canViewProducts false and isCourierMode true.
C26_CanAccessPage ==
    /\ last.op = "canAccessPage" =>
          /\ last.out = TRUE <=>
                /\ last.user # NoUser
                /\ \E pp \in ViewPermission :
                     /\ pp[1] = last.arg
                     /\ pp[2] \in Granted[EffectiveRole(last.user.role)]
          /\ (last.user # NoUser /\ last.user.role = "courier") =>
                /\ last.arg = "products" => last.out = FALSE
                /\ last.arg = "orders" => last.out = TRUE
    /\ last.op = "getRolePermissions" =>
          /\ last.arg \notin ValidRoles => last.out = getRolePermissions("courier")
          /\ last.arg = "courier" =>
                /\ last.out["canViewProducts"] = FALSE
                /\ last.out["isCourierMode"] = TRUE

\* a user with the role 'manager' is denied the products page
C26_Witness ==
    /\ last.op = "canAccessPage"
    /\ last.user # NoUser
    /\ last.user.role = "manager"
    /\ last.arg = "products"
    /\ last.out = FALSE

\* ---------------------------------------------------------------- C27
\* the app shows the current page, which the user may access
Settled ==
    /\ ~app.stale
    /\ canAccessPage(app.user, app.currentPage)
    /\ app.rendered = app.currentPage

C28_DeleteNeedsPermission ==
    (/\ last.op = "deleteOrder"
     /\ last.user # NoUser
     /\ PreOrder # Absent
     /\ "canDeleteOrder" \notin Granted[EffectiveRole(last.user.role)]) =>
        /\ last.http \in {401, 403}
        /\ orders[last.id] = PreOrder
        /\ orderItems[last.id] = PreItems

\* ---------------------------------------------------------------- C29
\* C29: a successful arrival stores its unit under an id no stored unit had,
\* leaves every stored unit and movement as it was, and adds exactly one
\* movement, of type arrival, also when two arrivals fall in one millisecond.
C29_ArrivalAddsOneUnitOneMove ==
    (last.op = "postStockUnit" /\ last.http = 200) =>
        /\ last.pre.stockUnits[last.id] = Absent
        /\ \A i \in Times \ {last.id} : stockUnits[i] = last.pre.stockUnits[i]
        /\ last.pre.stockMoves \subseteq stockMoves
        /\ \E m \in stockMoves \ last.pre.stockMoves :
              /\ m.type = "arrival"
              /\ stockMoves \ last.pre.stockMoves = {m}

\* ---------------------------------------------------------------- C30
\* C30: every order a courier receives, from the list or from the single-order
\* read, passes the courier visibility filter for that courier (for the
\* single-order read, on some day of the server's clock).
C30_CourierReadsOnlyVisible ==
    /\ (last.op = "getOrders" /\ last.http = 200 /\ last.user.role = "courier") =>
          \A k \in 1..Len(last.out) :
              CourierFilter(orders[last.out[k]], last.user, last.arg)
    /\ (last.op = "getOrder" /\ last.http = 200 /\ last.user.role = "courier") =>
          \E today \in ServerDays : CourierFilter(last.out.order, last.user, today)
====
